---- MODULE Spec2Model ----
\* Text model of the calli-glyph editor (src/src/app.rs): line buffer, cursor,
\* selection, scroll window, edit operations and the clipboard payload.
\* A line is a sequence of one-character strings; offsets are 0-based as in
\* the source, sequences are 1-based, so line y of the source is content[y+1].
EXTENDS Integers, Sequences, FiniteSets, TLC

VARIABLES
    editor_content,        \* Vec<String>
    cursor_x,              \* i16
    cursor_y,              \* i16
    visual_cursor_x,       \* i16
    scroll_offset,         \* i16
    terminal_height,       \* i16, fixed by the rendering surface
    text_selection_start,  \* Option<CursorPosition>
    text_selection_end,    \* Option<CursorPosition>
    copied_text,           \* Vec<String>
    panicked,              \* TRUE once an operation indexed out of range
    op,                    \* the last operation called, with its arguments
    result,                \* what that call returned to its caller
    active_area,           \* ActiveArea
    command_input,         \* String
    editor_cursor_x,       \* i16, the editor cursor kept while the command line is active
    editor_cursor_y,       \* i16
    undo_stack,            \* records of the committed edits, the last one on top
    redo_stack,            \* records of the edits undone, the last one on top
    pre                    \* Some(the App value the call was made on), or None

vars == <<editor_content, cursor_x, cursor_y, visual_cursor_x, scroll_offset,
          terminal_height, text_selection_start, text_selection_end,
          copied_text, panicked, op, result, active_area, command_input,
          editor_cursor_x, editor_cursor_y, undo_stack, redo_stack, pre>>

\* what the operations of the editor area leave alone
outside == <<active_area, command_input, editor_cursor_x, editor_cursor_y,
             undo_stack, redo_stack>>

\* ---------------------------------------------------------------- bounds
MaxLines == 3          \* most lines the buffer may grow to
MaxChars == 1          \* most characters held in buffer and payload together
TerminalHeight == 3    \* viewport height the rendering surface reports
StepLines == 3         \* most lines of a buffer, or of a payload, a single call is tried on
StepLen == 2           \* most characters of a line of such a buffer
MaxInput == 2          \* most characters typed into the command line

\* ------------------------------------------------------------- constants
TAB_WIDTH == 4
I16_MAX == 32767

TAB == "\t"
SPACE == " "
Chars == {"a"}         \* characters the keyboard sends to write_char

\* what a call hands back: nothing (it aborted, or none was made), the unit
\* value, or a Result<()>
NoResult == "none"
Unit == "()"
Ok == "Ok(())"
Err == "Err"

\* enum ActiveArea
Editor == "Editor"
CommandLine == "CommandLine"

\* ------------------------------------------------- Option<CursorPosition>
None == <<>>
Some(p) == <<p>>
is_some(o) == Len(o) > 0
is_none(o) == Len(o) = 0
unwrap(o) == o[1]
CursorPosition(x, y) == [x |-> x, y |-> y]
\* p is after q in document order
After(p, q) == p.y > q.y \/ (p.y = q.y /\ p.x > q.x)

\* ------------------------------------------------------- Vec<char> helpers
Take(s, n) == SubSeq(s, 1, n)
Drop(s, n) == SubSeq(s, n + 1, Len(s))
\* Vec::insert(i, c); the caller checks i <= len
InsertAt(s, i, c) == Take(s, i) \o <<c>> \o Drop(s, i)
\* Vec::remove(i); the caller checks i < len
RemoveAt(s, i) == Take(s, i) \o Drop(s, i + 1)
\* Vec::drain(a..b); the caller checks a <= b <= len
Drain(s, a, b) == Take(s, a) \o Drop(s, b)
\* slice[a..b].fill(' '); the caller checks a <= b <= len
Fill(s, a, b) == [i \in 1..Len(s) |-> IF a < i /\ i <= b THEN SPACE ELSE s[i]]

RECURSIVE Pad(_, _)
\* while v.len() < n { v.push(String::new()) }
Pad(v, n) == IF Len(v) < n THEN Pad(Append(v, <<>>), n) ELSE v

clamp(v, lo, hi) == IF v < lo THEN lo ELSE IF v > hi THEN hi ELSE v

RECURSIVE TotalChars(_)
TotalChars(v) == IF v = <<>> THEN 0 ELSE Len(Head(v)) + TotalChars(Tail(v))

\* ------------------------------------------------------------ the App value
Self ==
    [editor_content |-> editor_content, cursor_x |-> cursor_x, cursor_y |-> cursor_y,
     visual_cursor_x |-> visual_cursor_x, scroll_offset |-> scroll_offset,
     terminal_height |-> terminal_height,
     text_selection_start |-> text_selection_start,
     text_selection_end |-> text_selection_end,
     copied_text |-> copied_text, panicked |-> panicked]

\* an index or range check of the standard library failed: the process aborts
Panic(self) == [self EXCEPT !.panicked = TRUE]

line_of(self, y) == self.editor_content[y + 1]
char_count(self, y) == Len(line_of(self, y))
line_count(self) == Len(self.editor_content)

is_text_selected(self) ==
    is_some(self.text_selection_start) /\ is_some(self.text_selection_end)

\* ------------------------------------------------------------------ cursor
RECURSIVE visual_x_scan(_, _, _, _)
visual_x_scan(line, i, cx, visual_x) ==
    IF i >= Len(line) \/ i = cx THEN visual_x
    ELSE visual_x_scan(line, i + 1, cx,
             IF line[i + 1] = TAB
             THEN visual_x + (TAB_WIDTH - (visual_x % TAB_WIDTH))
             ELSE visual_x + 1)

\* every character one column wide, the tab included
calculate_visual_x_counts_chars(self) ==
    IF self.cursor_x < char_count(self, self.cursor_y) THEN self.cursor_x
    ELSE char_count(self, self.cursor_y)

calculate_visual_x(self) ==
    visual_x_scan(line_of(self, self.cursor_y), 0, self.cursor_x, 0)

with_visual_x(self) == [self EXCEPT !.visual_cursor_x = calculate_visual_x(self)]

is_cursor_top_or_bottom(self) ==
    [top |-> self.cursor_y = self.scroll_offset,
     bottom |-> self.cursor_y = self.scroll_offset + (self.terminal_height - 2)]

\* the step of y keeps x, however short the destination line
move_cursor_vertical_keeps_x(self, y, max_x_pos) ==
    LET tb == is_cursor_top_or_bottom(self) IN
    IF (y = 1 /\ tb.bottom) \/ (y = -1 /\ tb.top)
    THEN [self EXCEPT !.scroll_offset = clamp(self.scroll_offset + y, 0, I16_MAX)]
    ELSE with_visual_x([self EXCEPT !.cursor_y = clamp(self.cursor_y + y, 0, I16_MAX)])

\* on the band edge the offset moves and the cursor line steps as well
move_cursor_vertical_scrolls_and_steps(self, y, max_x_pos) ==
    LET tb == is_cursor_top_or_bottom(self)
        stepped == with_visual_x(
                       [self EXCEPT !.cursor_x = clamp(self.cursor_x, 0, max_x_pos),
                                    !.cursor_y = clamp(self.cursor_y + y, 0, I16_MAX)])
    IN IF (y = 1 /\ tb.bottom) \/ (y = -1 /\ tb.top)
       THEN [stepped EXCEPT !.scroll_offset = clamp(self.scroll_offset + y, 0, I16_MAX)]
       ELSE stepped

\* lines 492-501: the scroll check, then the clamp of x and the step of y
move_cursor_vertical(self, y, max_x_pos) ==
    LET tb == is_cursor_top_or_bottom(self) IN
    IF (y = 1 /\ tb.bottom) \/ (y = -1 /\ tb.top)
    THEN [self EXCEPT !.scroll_offset = clamp(self.scroll_offset + y, 0, I16_MAX)]
    ELSE with_visual_x([self EXCEPT !.cursor_x = clamp(self.cursor_x, 0, max_x_pos),
                                    !.cursor_y = clamp(self.cursor_y + y, 0, I16_MAX)])

\* a step left from the start of a line lands on the start of the line above
move_cursor_left_wraps_to_line_start(self, x, y, max_x_pos) ==
    IF x < 0 /\ self.cursor_x > 0
    THEN move_cursor_vertical([self EXCEPT !.cursor_x = @ + x], y, max_x_pos)
    ELSE IF self.cursor_x = 0 /\ x = -1 /\ self.cursor_y # 0
    THEN with_visual_x([self EXCEPT !.cursor_y = self.cursor_y - 1, !.cursor_x = 0])
    ELSE move_cursor_vertical(self, y, max_x_pos)

\* lines 481-489, then the rest of the function
move_cursor_left(self, x, y, max_x_pos) ==
    IF x < 0 /\ self.cursor_x > 0
    THEN move_cursor_vertical([self EXCEPT !.cursor_x = @ + x], y, max_x_pos)
    ELSE IF self.cursor_x = 0 /\ x = -1 /\ self.cursor_y # 0
    THEN with_visual_x([self EXCEPT !.cursor_y = self.cursor_y - 1,
                                    !.cursor_x = char_count(self, self.cursor_y - 1)])
    ELSE move_cursor_vertical(self, y, max_x_pos)

move_cursor_in_editor(self, x, y) ==
    IF self.cursor_y = 0 /\ y = -1 THEN self
    ELSE
      LET s1 == [self EXCEPT !.editor_content = Pad(@, self.cursor_y + y + 1)]
          max_x_pos == char_count(s1, s1.cursor_y + y)
      IN IF x > 0 /\ s1.cursor_x < max_x_pos
         THEN move_cursor_left([s1 EXCEPT !.cursor_x = @ + x], x, y, max_x_pos)
         ELSE IF x = 1 /\ s1.cursor_x >= char_count(s1, s1.cursor_y)
                 /\ line_count(s1) > s1.cursor_y + 1
         THEN with_visual_x([s1 EXCEPT !.cursor_y = @ + 1, !.cursor_x = 0])
         ELSE move_cursor_left(s1, x, y, max_x_pos)

\* the request moves the cursor line along with the offset
move_scroll_offset_steps_cursor(self, offset) ==
    LET tb == is_cursor_top_or_bottom(self) IN
    IF (offset = 1 /\ tb.bottom) \/ (offset = -1 /\ tb.top)
    THEN [self EXCEPT !.scroll_offset = clamp(self.scroll_offset + offset, 0, I16_MAX),
                      !.cursor_y = clamp(self.cursor_y + offset, 0, I16_MAX)]
    ELSE move_cursor_in_editor(self, 0, offset)

move_scroll_offset(self, offset) ==
    LET tb == is_cursor_top_or_bottom(self) IN
    IF (offset = 1 /\ tb.bottom) \/ (offset = -1 /\ tb.top)
    THEN [self EXCEPT !.scroll_offset = clamp(self.scroll_offset + offset, 0, I16_MAX)]
    ELSE move_cursor_in_editor(self, 0, offset)

\* the leftward branch leaves an unset end unset
move_selection_cursor_half_open(self, x, y) ==
    LET old == CursorPosition(self.cursor_x, self.cursor_y)
        s1 == move_cursor_in_editor(self, x, y)
        new == CursorPosition(s1.cursor_x, s1.cursor_y)
        s2 == IF x > 0 \/ y > 0
              THEN [s1 EXCEPT !.text_selection_start =
                                  IF is_none(@) THEN Some(old) ELSE @,
                              !.text_selection_end = Some(new)]
              ELSE s1
    IN IF x < 0 \/ y < 0
       THEN [s2 EXCEPT !.text_selection_start = Some(new)]
       ELSE s2

\* the leftward branch stores the two positions the rightward way round
move_selection_cursor_same_order(self, x, y) ==
    LET old == CursorPosition(self.cursor_x, self.cursor_y)
        s1 == move_cursor_in_editor(self, x, y)
        new == CursorPosition(s1.cursor_x, s1.cursor_y)
    IN IF x > 0 \/ y > 0 \/ x < 0 \/ y < 0
       THEN [s1 EXCEPT !.text_selection_start =
                           IF is_none(@) THEN Some(old) ELSE @,
                       !.text_selection_end = Some(new)]
       ELSE s1

\* the rightward branch overwrites start on every call
move_selection_cursor_resets_start(self, x, y) ==
    LET old == CursorPosition(self.cursor_x, self.cursor_y)
        s1 == move_cursor_in_editor(self, x, y)
        new == CursorPosition(s1.cursor_x, s1.cursor_y)
        s2 == IF x > 0 \/ y > 0
              THEN [s1 EXCEPT !.text_selection_start = Some(old),
                              !.text_selection_end = Some(new)]
              ELSE s1
    IN IF x < 0 \/ y < 0
       THEN [s2 EXCEPT !.text_selection_start = Some(new),
                       !.text_selection_end = IF is_none(@) THEN Some(old) ELSE @]
       ELSE s2

move_selection_cursor(self, x, y) ==
    LET old == CursorPosition(self.cursor_x, self.cursor_y)
        s1 == move_cursor_in_editor(self, x, y)
        new == CursorPosition(s1.cursor_x, s1.cursor_y)
        s2 == IF x > 0 \/ y > 0
              THEN [s1 EXCEPT !.text_selection_start =
                                  IF is_none(@) THEN Some(old) ELSE @,
                              !.text_selection_end = Some(new)]
              ELSE s1
    IN IF x < 0 \/ y < 0
       THEN [s2 EXCEPT !.text_selection_start = Some(new),
                       !.text_selection_end = IF is_none(@) THEN Some(old) ELSE @]
       ELSE s2

\* a plain motion clears the selection only when the cursor moved
move_all_cursor_editor_keeps_selection(self, x, y, shift_held) ==
    LET moved == move_cursor_in_editor(self, x, y) IN
    IF shift_held THEN move_selection_cursor(self, x, y)
    ELSE IF moved.cursor_x = self.cursor_x /\ moved.cursor_y = self.cursor_y
    THEN moved
    ELSE [moved EXCEPT !.text_selection_start = None, !.text_selection_end = None]

move_all_cursor_editor(self, x, y, shift_held) ==
    IF shift_held THEN move_selection_cursor(self, x, y)
    ELSE [move_cursor_in_editor(self, x, y) EXCEPT !.text_selection_start = None,
                                                   !.text_selection_end = None]

\* ---------------------------------------------------------- edit operations
\* &editor_content[start.y..=end.y] is in range
slice_ok(self, start, end) ==
    start.y <= end.y + 1 /\ end.y + 1 <= line_count(self)

\* the loop over a selection of two or more lines aborts in a drain or fill:
\* the last line is cut at end.x, every other line at start.x
multi_line_out_of_range(self, start, end) ==
    \E y \in start.y..end.y :
        IF y = end.y THEN end.x > char_count(self, y)
                     ELSE start.x > char_count(self, y)

\* the single-line branch aborts in the index or in drain/fill(start.x..end.x)
single_line_out_of_range(self, start, end) ==
    \/ start.y >= line_count(self)
    \/ start.x > end.x
    \/ end.x > char_count(self, start.y)

selection_out_of_range(self, start, end) ==
    \/ ~slice_ok(self, start, end)
    \/ IF end.y + 1 - start.y > 1
       THEN multi_line_out_of_range(self, start, end)
       ELSE single_line_out_of_range(self, start, end)

\* the buffer with lines start.y..end.y replaced by f[y]
replace_lines(self, start, end, f) ==
    [i \in 1..line_count(self) |->
        IF start.y <= i - 1 /\ i - 1 <= end.y THEN f[i - 1] ELSE line_of(self, i - 1)]

cursor_at(self, p) ==
    [self EXCEPT !.cursor_x = p.x, !.cursor_y = p.y,
                 !.text_selection_start = None, !.text_selection_end = None]

\* the single-line branch inserts c and keeps the selected span
write_char_in_editor_text_is_selected_keeps_span(self, c) ==
    LET start == unwrap(self.text_selection_start)
        end == unwrap(self.text_selection_end)
        multi == [y \in start.y..end.y |->
                    LET line == line_of(self, y)
                        cut == IF y = end.y THEN Drain(line, 0, end.x)
                               ELSE Drain(line, start.x, Len(line))
                    IN IF y = start.y THEN InsertAt(cut, start.x, c) ELSE cut]
        single == [y \in {start.y} |-> InsertAt(line_of(self, y), start.x, c)]
        lines == IF end.y + 1 - start.y > 1
                 THEN replace_lines(self, start, end, multi)
                 ELSE replace_lines(self, start, start, single)
    IN IF selection_out_of_range(self, start, end) THEN Panic(self)
       ELSE move_cursor_in_editor(
                cursor_at([self EXCEPT !.editor_content = lines], start), 1, 0)

write_char_in_editor_text_is_selected(self, c) ==
    LET start == unwrap(self.text_selection_start)
        end == unwrap(self.text_selection_end)
        multi == [y \in start.y..end.y |->
                    LET line == line_of(self, y)
                        cut == IF y = end.y THEN Drain(line, 0, end.x)
                               ELSE Drain(line, start.x, Len(line))
                    IN IF y = start.y THEN InsertAt(cut, start.x, c) ELSE cut]
        single == [y \in {start.y} |->
                    InsertAt(Drain(line_of(self, y), start.x, end.x), start.x, c)]
        lines == IF end.y + 1 - start.y > 1
                 THEN replace_lines(self, start, end, multi)
                 ELSE replace_lines(self, start, start, single)
    IN IF selection_out_of_range(self, start, end) THEN Panic(self)
       ELSE move_cursor_in_editor(
                cursor_at([self EXCEPT !.editor_content = lines], start), 1, 0)

\* the character goes to the end of the line, wherever the cursor is
write_char_in_editor_appends(self, c) ==
    LET s1 == [self EXCEPT !.editor_content = Pad(@, self.cursor_y + 1)]
        n == char_count(s1, s1.cursor_y)
        s2 == IF n < s1.cursor_x THEN [s1 EXCEPT !.cursor_x = n] ELSE s1
        line == Append(line_of(s2, s2.cursor_y), c)
    IN move_cursor_in_editor(
           [s2 EXCEPT !.editor_content[s2.cursor_y + 1] = line], 1, 0)

write_char_in_editor(self, c) ==
    LET s1 == [self EXCEPT !.editor_content = Pad(@, self.cursor_y + 1)]
        n == char_count(s1, s1.cursor_y)
        s2 == IF n < s1.cursor_x THEN [s1 EXCEPT !.cursor_x = n] ELSE s1
        line == InsertAt(line_of(s2, s2.cursor_y), s2.cursor_x, c)
    IN move_cursor_in_editor(
           [s2 EXCEPT !.editor_content[s2.cursor_y + 1] = line], 1, 0)

write_all_char_in_editor(self, c) ==
    IF is_text_selected(self) THEN write_char_in_editor_text_is_selected(self, c)
    ELSE write_char_in_editor(self, c)

backspace_in_editor_text_is_selected(self) ==
    LET start == unwrap(self.text_selection_start)
        end == unwrap(self.text_selection_end)
        multi == [y \in start.y..end.y |->
                    LET line == line_of(self, y)
                    IN IF y = end.y THEN Drain(line, 0, end.x)
                       ELSE Drain(line, start.x, Len(line))]
        single == [y \in {start.y} |-> Drain(line_of(self, y), start.x, end.x)]
        lines == IF end.y + 1 - start.y > 1
                 THEN replace_lines(self, start, end, multi)
                 ELSE replace_lines(self, start, start, single)
    IN IF selection_out_of_range(self, start, end) THEN Panic(self)
       ELSE with_visual_x(cursor_at([self EXCEPT !.editor_content = lines], start))

\* backspace removes the character at the cursor, not the one before it
backspace_in_editor_removes_at_cursor(self) ==
    IF self.cursor_y >= line_count(self) THEN Panic(self)
    ELSE
      LET line_char_count == char_count(self, self.cursor_y) IN
      IF self.cursor_x > 0 /\ self.cursor_x <= line_char_count
      THEN move_cursor_in_editor(
               [self EXCEPT !.editor_content[self.cursor_y + 1] =
                                RemoveAt(@, self.cursor_x)], -1, 0)
      ELSE IF self.cursor_y > 0
      THEN LET line == line_of(self, self.cursor_y)
               new_x_value == char_count(self, self.cursor_y - 1)
               removed == RemoveAt(self.editor_content, self.cursor_y)
           IN [self EXCEPT !.editor_content =
                               [removed EXCEPT ![self.cursor_y] = @ \o line],
                           !.cursor_y = self.cursor_y - 1,
                           !.cursor_x = new_x_value]
      ELSE self

backspace_in_editor(self) ==
    IF self.cursor_y >= line_count(self) THEN Panic(self)
    ELSE
      LET line_char_count == char_count(self, self.cursor_y) IN
      IF self.cursor_x > 0 /\ self.cursor_x <= line_char_count
      THEN move_cursor_in_editor(
               [self EXCEPT !.editor_content[self.cursor_y + 1] =
                                RemoveAt(@, self.cursor_x - 1)], -1, 0)
      ELSE IF self.cursor_y > 0
      THEN LET line == line_of(self, self.cursor_y)
               new_x_value == char_count(self, self.cursor_y - 1)
               removed == RemoveAt(self.editor_content, self.cursor_y)
           IN [self EXCEPT !.editor_content =
                               [removed EXCEPT ![self.cursor_y] = @ \o line],
                           !.cursor_y = self.cursor_y - 1,
                           !.cursor_x = new_x_value]
      ELSE self

backspace_all_in_editor(self) ==
    IF is_text_selected(self) THEN backspace_in_editor_text_is_selected(self)
    ELSE backspace_in_editor(self)

\* the cursor goes to the stored start, as after backspace
delete_in_editor_text_is_selected_cursor_at_start(self) ==
    LET start == unwrap(self.text_selection_start)
        end == unwrap(self.text_selection_end)
        multi == [y \in start.y..end.y |->
                    LET line == line_of(self, y)
                    IN IF y = end.y THEN Fill(line, 0, end.x)
                       ELSE Drain(line, start.x, Len(line))]
        single == [y \in {start.y} |-> Fill(line_of(self, y), start.x, end.x)]
        lines == IF end.y + 1 - start.y > 1
                 THEN replace_lines(self, start, end, multi)
                 ELSE replace_lines(self, start, start, single)
    IN IF selection_out_of_range(self, start, end) THEN Panic(self)
       ELSE with_visual_x(cursor_at([self EXCEPT !.editor_content = lines], start))

delete_in_editor_text_is_selected(self) ==
    LET start == unwrap(self.text_selection_start)
        end == unwrap(self.text_selection_end)
        multi == [y \in start.y..end.y |->
                    LET line == line_of(self, y)
                    IN IF y = end.y THEN Fill(line, 0, end.x)
                       ELSE Drain(line, start.x, Len(line))]
        single == [y \in {start.y} |-> Fill(line_of(self, y), start.x, end.x)]
        lines == IF end.y + 1 - start.y > 1
                 THEN replace_lines(self, start, end, multi)
                 ELSE replace_lines(self, start, start, single)
    IN IF selection_out_of_range(self, start, end) THEN Panic(self)
       ELSE with_visual_x(cursor_at([self EXCEPT !.editor_content = lines], end))

\* delete on an empty line removes the line, whether or not another remains
delete_in_editor_removes_empty_line(self) ==
    IF self.cursor_y >= line_count(self) THEN Panic(self)
    ELSE
      LET current_line_len == char_count(self, self.cursor_y) IN
      IF current_line_len = 0
      THEN [self EXCEPT !.editor_content = RemoveAt(@, self.cursor_y)]
      ELSE IF self.cursor_x >= current_line_len - 1
              /\ line_count(self) > self.cursor_y + 1
      THEN LET line == line_of(self, self.cursor_y + 1)
               removed == RemoveAt(self.editor_content, self.cursor_y + 1)
           IN [self EXCEPT !.editor_content =
                               [removed EXCEPT ![self.cursor_y + 1] = @ \o line]]
      ELSE IF current_line_len > self.cursor_x + 1
      THEN [self EXCEPT !.editor_content[self.cursor_y + 1] =
                            RemoveAt(@, self.cursor_x + 1)]
      ELSE self

\* delete removes the character at the cursor and joins at the end of line
delete_in_editor_at_cursor(self) ==
    IF self.cursor_y >= line_count(self) THEN Panic(self)
    ELSE
      LET current_line_len == char_count(self, self.cursor_y) IN
      IF self.cursor_x >= current_line_len
         /\ line_count(self) > self.cursor_y + 1
      THEN LET line == line_of(self, self.cursor_y + 1)
               removed == RemoveAt(self.editor_content, self.cursor_y + 1)
           IN [self EXCEPT !.editor_content =
                               [removed EXCEPT ![self.cursor_y + 1] = @ \o line]]
      ELSE IF current_line_len > self.cursor_x
      THEN [self EXCEPT !.editor_content[self.cursor_y + 1] =
                            RemoveAt(@, self.cursor_x)]
      ELSE self

delete_in_editor(self) ==
    IF self.cursor_y >= line_count(self) THEN Panic(self)
    ELSE
      LET current_line_len == char_count(self, self.cursor_y) IN
      IF current_line_len = 0 THEN self
      ELSE IF self.cursor_x >= current_line_len - 1
              /\ line_count(self) > self.cursor_y + 1
      THEN LET line == line_of(self, self.cursor_y + 1)
               removed == RemoveAt(self.editor_content, self.cursor_y + 1)
           IN [self EXCEPT !.editor_content =
                               [removed EXCEPT ![self.cursor_y + 1] = @ \o line]]
      ELSE IF current_line_len > self.cursor_x + 1
      THEN [self EXCEPT !.editor_content[self.cursor_y + 1] =
                            RemoveAt(@, self.cursor_x + 1)]
      ELSE self

delete_all_in_editor(self) ==
    IF is_text_selected(self) THEN delete_in_editor_text_is_selected(self)
    ELSE delete_in_editor(self)

tab_in_editor(self) ==
    IF self.cursor_y >= line_count(self) THEN Panic(self)
    ELSE IF self.cursor_x > char_count(self, self.cursor_y) THEN Panic(self)
    ELSE move_cursor_in_editor(
             [self EXCEPT !.editor_content[self.cursor_y + 1] =
                              InsertAt(@, self.cursor_x, TAB)], 1, 0)

enter_in_editor(self) ==
    IF self.cursor_y >= line_count(self) THEN Panic(self)
    ELSE
      LET line == line_of(self, self.cursor_y) IN
      IF self.cursor_x >= Len(line)
      THEN move_cursor_in_editor(
               [self EXCEPT !.editor_content =
                                InsertAt(@, self.cursor_y + 1, <<>>)], 0, 1)
      ELSE LET line_end == Drop(line, self.cursor_x)
               s1 == [self EXCEPT !.editor_content[self.cursor_y + 1] =
                                      Take(line, self.cursor_x)]
               s2 == move_cursor_in_editor(s1, 0, 1)
           IN IF s2.cursor_y > line_count(s2) THEN Panic(s2)
              ELSE [s2 EXCEPT !.editor_content = InsertAt(@, s2.cursor_y, line_end),
                              !.cursor_x = 0]

\* --------------------------------------------------------------- clipboard
\* copies the selected lines whole
copy_selected_text_whole_lines(self) ==
    IF ~is_text_selected(self) THEN self
    ELSE [self EXCEPT !.copied_text =
              SubSeq(self.editor_content,
                     unwrap(self.text_selection_start).y + 1,
                     unwrap(self.text_selection_end).y + 1)]

\* copies and drops the selection
copy_selected_text_clears_selection(self) ==
    [copy_selected_text_whole_lines(self) EXCEPT !.text_selection_start = None,
                                                 !.text_selection_end = None]

copy_selected_text(self) ==
    IF ~is_text_selected(self) THEN self
    ELSE
      LET start == unwrap(self.text_selection_start)
          end == unwrap(self.text_selection_end)
          n == end.y + 1 - start.y
          multi == [i \in 1..n |->
                      LET line == line_of(self, start.y + i - 1)
                      IN IF i = 1 THEN Drop(line, start.x)
                         ELSE IF i = n THEN Take(line, end.x)
                         ELSE line]
          multi_bad == \/ start.x > char_count(self, start.y)
                       \/ end.x > char_count(self, end.y)
      IN IF ~slice_ok(self, start, end) THEN Panic(self)
         ELSE IF n > 1
         THEN IF multi_bad THEN Panic(self)
              ELSE [self EXCEPT !.copied_text = multi]
         ELSE IF single_line_out_of_range(self, start, end) THEN Panic(self)
              ELSE [self EXCEPT !.copied_text =
                        << SubSeq(line_of(self, start.y), start.x + 1, end.x) >>]

\* puts the payload in as lines of their own above the cursor line
paste_selected_text_inserts_lines(self) ==
    IF self.copied_text = <<>> THEN self
    ELSE [self EXCEPT !.editor_content =
              Take(@, self.cursor_y) \o self.copied_text \o Drop(@, self.cursor_y)]

\* the same, and empties the clipboard (the clear() commented out at line 734)
paste_selected_text_takes(self) ==
    [paste_selected_text_inserts_lines(self) EXCEPT !.copied_text = <<>>]

paste_selected_text(self) ==
    IF self.copied_text = <<>> THEN self
    ELSE
      LET insert_y == self.cursor_y
          insert_x == self.cursor_x
          n == Len(self.copied_text)
          s1 == [self EXCEPT !.editor_content = Pad(@, insert_y + n - 1)]
      IN IF insert_y >= line_count(s1) THEN Panic(s1)
         ELSE
           LET chars == line_of(s1, insert_y)
               at == IF insert_x < Len(chars) THEN insert_x ELSE Len(chars)
               before_cursor == Take(chars, at)
               after_cursor == Drop(chars, at)
               new_lines ==
                   << before_cursor \o self.copied_text[1] >>
                   \o SubSeq(self.copied_text, 2, n - 1)
                   \o << self.copied_text[n] \o after_cursor >>
           IN IF n = 1
              THEN [s1 EXCEPT !.editor_content[insert_y + 1] =
                        before_cursor \o self.copied_text[1] \o after_cursor]
              ELSE [s1 EXCEPT !.editor_content =
                        Take(@, insert_y) \o new_lines \o Drop(@, insert_y + 1)]

\* an error when nothing is selected
copy_selected_text_result_requires_selection(self) ==
    IF is_text_selected(self) THEN Ok ELSE Err

\* the Result each of them returns: Ok(()) on every path (lines 669, 671)
copy_selected_text_result(self) ==
    IF is_text_selected(self) THEN Ok ELSE Ok

\* an error when the clipboard is empty
paste_selected_text_result_requires_payload(self) ==
    IF self.copied_text = <<>> THEN Err ELSE Ok

\* Ok(()) on the early return (line 679) and at the end (line 735)
paste_selected_text_result(self) ==
    IF self.copied_text = <<>> THEN Ok ELSE Ok

\* ------------------------------------------------------------ state machine
\* op records the call and, of the state it was made in, whether a selection
\* was active (sel), the number of lines (lines) and the cursor line (cy)
NoOp ==
    [name |-> "new", x |-> 0, y |-> 0, shift |-> FALSE, c |-> "",
     sel |-> FALSE, lines |-> 0, cy |-> 0]
Called(name, x, y, shift, c) ==
    [name |-> name, x |-> x, y |-> y, shift |-> shift, c |-> c,
     sel |-> is_text_selected(Self), lines |-> line_count(Self),
     cy |-> cursor_y]

Init ==
    /\ editor_content = << <<>> >>
    /\ cursor_x = 0
    /\ cursor_y = 0
    /\ visual_cursor_x = 0
    /\ scroll_offset = 0
    /\ terminal_height = TerminalHeight
    /\ text_selection_start = None
    /\ text_selection_end = None
    /\ copied_text = <<>>
    /\ panicked = FALSE
    /\ op = NoOp
    /\ result = NoResult
    /\ active_area = Editor
    /\ command_input = <<>>
    /\ editor_cursor_x = 0
    /\ editor_cursor_y = 0
    /\ undo_stack = <<>>
    /\ redo_stack = <<>>
    /\ pre = None

\* the buffer holds at most MaxLines lines; buffer and clipboard payload
\* together hold at most one line more, and at most MaxChars characters
WithinBounds(r) ==
    /\ Len(r.editor_content) <= MaxLines
    /\ Len(r.editor_content) + Len(r.copied_text) <= MaxLines + 1
    /\ TotalChars(r.editor_content) + TotalChars(r.copied_text) <= MaxChars

\* the process is alive, the call returns r (or aborts: r.panicked)
Returns(r) ==
    /\ ~panicked
    /\ editor_content' = r.editor_content
    /\ cursor_x' = r.cursor_x
    /\ cursor_y' = r.cursor_y
    /\ visual_cursor_x' = r.visual_cursor_x
    /\ scroll_offset' = r.scroll_offset
    /\ terminal_height' = r.terminal_height
    /\ text_selection_start' = r.text_selection_start
    /\ text_selection_end' = r.text_selection_end
    /\ copied_text' = r.copied_text
    /\ panicked' = r.panicked

\* the call hands res to its caller unless it aborted
Hands(r, res) == result' = IF r.panicked THEN NoResult ELSE res

Yields(r, res) ==
    /\ WithinBounds(r)
    /\ Returns(r)
    /\ Hands(r, res)
    /\ UNCHANGED outside
    /\ pre' = pre

Becomes(r) == Yields(r, Unit)

Steps == { <<1, 0>>, <<-1, 0>>, <<0, 1>>, <<0, -1>> }

MoveCursor ==
    \E d \in Steps, shift_held \in BOOLEAN :
        /\ Becomes(move_all_cursor_editor(Self, d[1], d[2], shift_held))
        /\ op' = Called("move", d[1], d[2], shift_held, "")

WriteChar ==
    \E c \in Chars :
        /\ Becomes(write_all_char_in_editor(Self, c))
        /\ op' = Called("write", 0, 0, FALSE, c)

Backspace ==
    /\ Becomes(backspace_all_in_editor(Self))
    /\ op' = Called("backspace", 0, 0, FALSE, "")

Delete ==
    /\ Becomes(delete_all_in_editor(Self))
    /\ op' = Called("delete", 0, 0, FALSE, "")

Scroll ==
    \E offset \in {1, -1} :
        /\ Becomes(move_scroll_offset(Self, offset))
        /\ op' = Called("scroll", 0, offset, FALSE, "")

Tab ==
    /\ Becomes(tab_in_editor(Self))
    /\ op' = Called("tab", 0, 0, FALSE, "")

Enter ==
    /\ Becomes(enter_in_editor(Self))
    /\ op' = Called("enter", 0, 0, FALSE, "")

Copy ==
    /\ Yields(copy_selected_text(Self), copy_selected_text_result(Self))
    /\ op' = Called("copy", 0, 0, FALSE, "")

Paste ==
    /\ Yields(paste_selected_text(Self), paste_selected_text_result(Self))
    /\ op' = Called("paste", 0, 0, FALSE, "")

Next ==
    \/ MoveCursor
    \/ WriteChar
    \/ Backspace
    \/ Delete
    \/ Tab
    \/ Enter
    \/ Copy
    \/ Paste

Spec == Init /\ [][Next]_vars

\* buffer, cursor and view: every operation that reaches move_cursor_in_editor
\* or the scroll offset; the clipboard payload stays empty
ViewNext ==
    \/ MoveCursor
    \/ Scroll
    \/ WriteChar
    \/ Backspace
    \/ Delete
    \/ Tab
    \/ Enter

SpecView == Init /\ [][ViewNext]_vars

\* ------------------------------------------------ one call on a given state
\* The buffers a call is tried on: up to StepLines lines of up to StepLen
\* characters each, every character of the buffer a different letter, none of
\* them the typed character, a tab or a space.
Alphabet == <<"b", "c", "d", "e", "f", "g", "h", "i", "j", "k", "l", "m", "n">>

RECURSIVE CharsBefore(_, _)
CharsBefore(shape, i) == IF i = 0 THEN 0 ELSE shape[i] + CharsBefore(shape, i - 1)

Text(shape) ==
    [i \in 1..Len(shape) |->
        [j \in 1..shape[i] |->
            Alphabet[((CharsBefore(shape, i - 1) + j - 1) % Len(Alphabet)) + 1]]]

Shapes == UNION { [1..n -> 0..StepLen] : n \in 1..StepLines }

\* the positions of a buffer: 0 <= y < lines, 0 <= x <= char_count(y)
Positions(content) ==
    { p \in [x : 0..StepLen, y : 0..(Len(content) - 1)] :
        p.x <= Len(content[p.y + 1]) }

\* where a cursor without selection can be: a position, or one past the end of
\* its line (a stale x, as delete leaves it on a stored selection end)
Cursors(content) ==
    { p \in [x : 0..(StepLen + 1), y : 0..(Len(content) - 1)] :
        p.x <= Len(content[p.y + 1]) + 1 }

GivenClip(content, cursor, start, end, offset, payload) ==
    /\ editor_content = content
    /\ cursor_x = cursor.x
    /\ cursor_y = cursor.y
    /\ visual_cursor_x = calculate_visual_x(
           [editor_content |-> content, cursor_x |-> cursor.x, cursor_y |-> cursor.y])
    /\ scroll_offset = offset
    /\ terminal_height = TerminalHeight
    /\ text_selection_start = start
    /\ text_selection_end = end
    /\ copied_text = payload
    /\ panicked = FALSE
    /\ op = NoOp
    /\ result = NoResult
    /\ active_area = Editor
    /\ command_input = <<>>
    /\ editor_cursor_x = 0
    /\ editor_cursor_y = 0
    /\ undo_stack = <<>>
    /\ redo_stack = <<>>
    /\ pre = None

Given(content, cursor, start, end, offset) ==
    GivenClip(content, cursor, start, end, offset, <<>>)

\* no selection, the view at the top or one line down
MotionInit ==
    \E shape \in Shapes, offset \in {0, 1} :
        \E cursor \in Cursors(Text(shape)) :
            Given(Text(shape), cursor, None, None, offset)

\* no selection, or a selection start <= end with the cursor on one endpoint
EditInit ==
    \E shape \in Shapes :
        \/ \E cursor \in Cursors(Text(shape)) :
               Given(Text(shape), cursor, None, None, 0)
        \/ \E start \in Positions(Text(shape)), end \in Positions(Text(shape)) :
               /\ ~After(start, end)
               /\ \E cursor \in {start, end} :
                      Given(Text(shape), cursor, Some(start), Some(end), 0)

\* the same buffer with a tab as the first character of every non-empty line
Tabbed(content) ==
    [i \in 1..Len(content) |->
        IF content[i] = <<>> THEN <<>> ELSE <<TAB>> \o Tail(content[i])]

\* no selection, with and without tabs in the buffer, the view at the top or
\* one line down
KeyInit ==
    \E shape \in Shapes, tabs \in BOOLEAN, offset \in {0, 1} :
        LET content == IF tabs THEN Tabbed(Text(shape)) ELSE Text(shape)
        IN \E cursor \in Cursors(content) :
               Given(content, cursor, None, None, offset)

\* the clipboard payloads a call is tried on: none, or up to StepLines lines
\* of one character each, none of them a character of the buffer
ClipLetters == <<"p", "q", "r", "s", "t", "u", "v", "w">>

Payload(n) == [i \in 1..n |-> << ClipLetters[((i - 1) % Len(ClipLetters)) + 1] >>]

Payloads == { Payload(n) : n \in 0..StepLines }

\* as EditInit, with a payload already on the clipboard
ClipInit ==
    \E shape \in Shapes, payload \in Payloads :
        \/ \E cursor \in Cursors(Text(shape)) :
               GivenClip(Text(shape), cursor, None, None, 0, payload)
        \/ \E start \in Positions(Text(shape)), end \in Positions(Text(shape)) :
               /\ ~After(start, end)
               /\ \E cursor \in {start, end} :
                      GivenClip(Text(shape), cursor, Some(start), Some(end), 0, payload)

\* the single call: pre keeps the state it was made on
CallResult(r, o, res) ==
    /\ pre = None
    /\ Returns(r)
    /\ Hands(r, res)
    /\ UNCHANGED outside
    /\ op' = o
    /\ pre' = Some(Self)

Call(r, o) == CallResult(r, o, Unit)

MoveOnce ==
    \E d \in Steps, shift_held \in BOOLEAN :
        Call(move_all_cursor_editor(Self, d[1], d[2], shift_held),
             Called("move", d[1], d[2], shift_held, ""))

ScrollOnce ==
    \E offset \in {1, -1} :
        Call(move_scroll_offset(Self, offset), Called("scroll", 0, offset, FALSE, ""))

WriteOnce ==
    \E c \in Chars :
        Call(write_all_char_in_editor(Self, c), Called("write", 0, 0, FALSE, c))

BackspaceOnce ==
    Call(backspace_all_in_editor(Self), Called("backspace", 0, 0, FALSE, ""))

DeleteOnce ==
    Call(delete_all_in_editor(Self), Called("delete", 0, 0, FALSE, ""))

TabOnce ==
    Call(tab_in_editor(Self), Called("tab", 0, 0, FALSE, ""))

EnterOnce ==
    Call(enter_in_editor(Self), Called("enter", 0, 0, FALSE, ""))

CopyOnce ==
    CallResult(copy_selected_text(Self), Called("copy", 0, 0, FALSE, ""),
               copy_selected_text_result(Self))

PasteOnce ==
    CallResult(paste_selected_text(Self), Called("paste", 0, 0, FALSE, ""),
               paste_selected_text_result(Self))

MotionNext == MoveOnce \/ ScrollOnce

EditNext == WriteOnce \/ BackspaceOnce \/ DeleteOnce

SpecMotion == MotionInit /\ [][MotionNext]_vars

SpecEdit == EditInit /\ [][EditNext]_vars

KeyNext == TabOnce \/ EnterOnce

SpecKey == KeyInit /\ [][KeyNext]_vars

ClipNext == CopyOnce \/ PasteOnce

SpecClip == ClipInit /\ [][ClipNext]_vars

\* ------------------------------------------------ calls made one after another
\* a further call of a sequence: pre keeps the state the first call was made on
ThenResult(r, o, res) ==
    /\ pre # None
    /\ Returns(r)
    /\ Hands(r, res)
    /\ UNCHANGED outside
    /\ op' = o
    /\ pre' = pre

Then(r, o) == ThenResult(r, o, Unit)

\* a character typed with nothing selected
WriteFirst ==
    /\ ~is_text_selected(Self)
    /\ WriteOnce

\* a selection copied
CopyFirst ==
    /\ is_text_selected(Self)
    /\ CopyOnce

\* backspace right after the character was typed or the selection copied
BackspaceSecond ==
    /\ op.name \in {"write", "copy"}
    /\ Then(backspace_all_in_editor(Self), Called("backspace", 0, 0, FALSE, ""))

\* paste right after the backspace that removed the copied selection
PasteThird ==
    /\ op.name = "backspace" /\ op.sel
    /\ ThenResult(paste_selected_text(Self), Called("paste", 0, 0, FALSE, ""),
                  paste_selected_text_result(Self))

SeqNext == WriteFirst \/ CopyFirst \/ BackspaceSecond \/ PasteThird

SpecSeq == EditInit /\ [][SeqNext]_vars

\* ------------------------------------------------------------- active area
\* the App value with the fields of the command line
\* ----------------------------------------------------- sequences of motions
\* cursor motions only, one after another, from a state without selection; a
\* motion down from the last line pushes a line: the buffer stays within one
\* line more than the drawn buffers have
MoveFurther ==
    \E d \in Steps, shift_held \in BOOLEAN :
        LET r == move_all_cursor_editor(Self, d[1], d[2], shift_held)
        IN /\ Len(r.editor_content) <= StepLines + 1
           /\ Returns(r)
           /\ Hands(r, Unit)
           /\ UNCHANGED outside
           /\ op' = Called("move", d[1], d[2], shift_held, "")
           /\ pre' = pre

MotionsNext == MoveFurther

SpecMotions == MotionInit /\ [][MotionsNext]_vars

\* --------------------------------------------- sequences of vertical motions
\* the cursor on the first line, the view at the top
VerticalInit ==
    \E shape \in Shapes :
        \E cursor \in Positions(Text(shape)) :
            /\ cursor.y = 0
            /\ Given(Text(shape), cursor, None, None, 0)

\* a further call; the buffer stays within two lines more than the drawn
\* buffers have
Further(r, o) ==
    /\ Len(r.editor_content) <= StepLines + 2
    /\ Returns(r)
    /\ Hands(r, Unit)
    /\ UNCHANGED outside
    /\ op' = o
    /\ pre' = pre

MoveVertically ==
    \E y \in {1, -1} :
        Further(move_cursor_in_editor(Self, 0, y), Called("move", 0, y, FALSE, ""))

ScrollFurther ==
    \E offset \in {1, -1} :
        Further(move_scroll_offset(Self, offset), Called("scroll", 0, offset, FALSE, ""))

VerticalNext == MoveVertically \/ ScrollFurther

SpecVertical == VerticalInit /\ [][VerticalNext]_vars

\* ------------------------------------------------------------ save and load
NEWLINE == "\n"
CARRIAGE_RETURN == "\r"

\* [String]::join("\n"): the lines with one separator between neighbours
RECURSIVE join(_)
join(v) ==
    IF v = <<>> THEN <<>>
    ELSE IF Len(v) = 1 THEN v[1]
    ELSE v[1] \o <<NEWLINE>> \o join(Tail(v))

\* the offset of the first line feed of s, or Len(s) when it has none
RECURSIVE line_end(_, _)
line_end(s, i) ==
    IF i >= Len(s) THEN Len(s)
    ELSE IF s[i + 1] = NEWLINE THEN i
    ELSE line_end(s, i + 1)

\* a line ended by a line feed loses a carriage return before it
strip_carriage_return(line) ==
    IF line # <<>> /\ line[Len(line)] = CARRIAGE_RETURN
    THEN Take(line, Len(line) - 1) ELSE line

\* str::lines(): the parts ended by a line feed, then what is left when it
\* is not empty; the empty string has no line
RECURSIVE str_lines(_)
str_lines(s) ==
    LET i == line_end(s, 0) IN
    IF s = <<>> THEN <<>>
    ELSE IF i = Len(s) THEN << s >>
    ELSE << strip_carriage_return(Take(s, i)) >> \o str_lines(Drop(s, i + 1))

\* the bytes save writes to the file of the buffer
save(self) == join(self.editor_content)

\* the App that run sets up on a file of these contents
run(self, contents) ==
    [self EXCEPT !.editor_content = str_lines(contents),
                 !.cursor_x = 0,
                 !.cursor_y = 0,
                 !.visual_cursor_x = 0,
                 !.scroll_offset = 0,
                 !.text_selection_start = None,
                 !.text_selection_end = None,
                 !.copied_text = <<>>]

\* the buffer is saved and the editor started again on the saved file
SaveAndRun ==
    CallResult(run(Self, save(Self)), Called("save_run", 0, 0, FALSE, ""), Ok)

FileNext == SaveAndRun

SpecFile == MotionInit /\ [][FileNext]_vars

Whole ==
    Self @@ [active_area |-> active_area, command_input |-> command_input,
             editor_cursor_x |-> editor_cursor_x, editor_cursor_y |-> editor_cursor_y]

move_cursor_in_command_line(self, x) ==
    LET max_x_pos == Len(self.command_input)
    IN [self EXCEPT !.cursor_x = clamp(self.cursor_x + x, 0, max_x_pos)]

write_char_to_command_line(self, c) ==
    LET at == IF Len(self.command_input) < self.cursor_x
              THEN Len(self.command_input) ELSE self.cursor_x
    IN move_cursor_in_command_line(
           [self EXCEPT !.cursor_x = at,
                        !.command_input = InsertAt(@, at, c)], 1)

backspace_on_command_line(self) ==
    IF self.cursor_x > 0 /\ self.cursor_x <= Len(self.command_input)
    THEN move_cursor_in_command_line(
             [self EXCEPT !.command_input = RemoveAt(@, self.cursor_x - 1)], -1)
    ELSE self

\* leaving the editor saves the cursor column only
toggle_active_area_saves_column(self) ==
    IF self.active_area = Editor
    THEN [self EXCEPT !.editor_cursor_x = self.cursor_x,
                      !.active_area = CommandLine,
                      !.cursor_x = 0,
                      !.cursor_y = 0]
    ELSE [self EXCEPT !.active_area = Editor,
                      !.cursor_x = self.editor_cursor_x,
                      !.cursor_y = self.editor_cursor_y]

toggle_active_area(self) ==
    IF self.active_area = Editor
    THEN [self EXCEPT !.editor_cursor_x = self.cursor_x,
                      !.editor_cursor_y = self.cursor_y,
                      !.active_area = CommandLine,
                      !.cursor_x = 0,
                      !.cursor_y = 0]
    ELSE [self EXCEPT !.active_area = Editor,
                      !.cursor_x = self.editor_cursor_x,
                      !.cursor_y = self.editor_cursor_y]

\* a call that may touch the fields of the command line
ReturnsWhole(r, o) ==
    /\ Returns(r)
    /\ Hands(r, Unit)
    /\ active_area' = r.active_area
    /\ command_input' = r.command_input
    /\ editor_cursor_x' = r.editor_cursor_x
    /\ editor_cursor_y' = r.editor_cursor_y
    /\ UNCHANGED <<undo_stack, redo_stack>>
    /\ op' = o

\* pre keeps the state the editor was left in
ToggleActiveArea ==
    /\ ReturnsWhole(toggle_active_area(Whole), Called("toggle", 0, 0, FALSE, ""))
    /\ pre' = IF active_area = Editor THEN Some(Self) ELSE pre

\* the keys go to the command line while it is the active area
WriteCharToCommandLine ==
    /\ active_area = CommandLine
    /\ Len(command_input) < MaxInput
    /\ \E c \in Chars :
           ReturnsWhole(write_char_to_command_line(Whole, c),
                        Called("write_command", 0, 0, FALSE, c))
    /\ pre' = pre

BackspaceOnCommandLine ==
    /\ active_area = CommandLine
    /\ ReturnsWhole(backspace_on_command_line(Whole),
                    Called("backspace_command", 0, 0, FALSE, ""))
    /\ pre' = pre

MoveCursorInCommandLine ==
    /\ active_area = CommandLine
    /\ \E x \in {1, -1} :
           ReturnsWhole(move_cursor_in_command_line(Whole, x),
                        Called("move_command", x, 0, FALSE, ""))
    /\ pre' = pre

AreaNext ==
    \/ ToggleActiveArea
    \/ WriteCharToCommandLine
    \/ BackspaceOnCommandLine
    \/ MoveCursorInCommandLine

SpecArea == MotionInit /\ [][AreaNext]_vars

\* ------------------------------------------------------- undo/redo engine
\* Section 4.5 of the specification; the repository's code of it is not under
\* src/. A record holds the affected line range, its prior and resulting
\* content, and the prior and resulting cursor position.
\* the number of leading lines u and v have in common
LinesInCommon(u, v) ==
    LET n == IF Len(u) < Len(v) THEN Len(u) ELSE Len(v)
    IN CHOOSE k \in 0..n :
           /\ \A i \in 1..k : u[i] = v[i]
           /\ (k = n \/ u[k + 1] # v[k + 1])

Reversed(u) == [i \in 1..Len(u) |-> u[Len(u) + 1 - i]]

UndoRecord(before, after) ==
    LET u == before.editor_content
        v == after.editor_content
        first == LinesInCommon(u, v)
        kept == LinesInCommon(Reversed(Drop(u, first)), Reversed(Drop(v, first)))
    IN [first |-> first,
        prior |-> SubSeq(u, first + 1, Len(u) - kept),
        result |-> SubSeq(v, first + 1, Len(v) - kept),
        prior_cursor |-> CursorPosition(before.cursor_x, before.cursor_y),
        result_cursor |-> CursorPosition(after.cursor_x, after.cursor_y)]

\* the lines from index first that read old replaced by new, the cursor put at p
Replaced(self, first, old, new, p) ==
    with_visual_x([self EXCEPT
        !.editor_content = Take(@, first) \o new \o Drop(@, first + Len(old)),
        !.cursor_x = p.x,
        !.cursor_y = p.y])

\* undo restores the buffer but leaves the cursor where it is
undo_keeps_cursor(self, record) ==
    Replaced(self, record.first, record.result, record.prior,
             CursorPosition(self.cursor_x, self.cursor_y))

undo(self, record) ==
    Replaced(self, record.first, record.result, record.prior, record.prior_cursor)

redo(self, record) ==
    Replaced(self, record.first, record.prior, record.result, record.result_cursor)

Top(stack) == stack[Len(stack)]
Pop(stack) == SubSeq(stack, 1, Len(stack) - 1)

EditKinds == {"write", "backspace", "delete", "tab", "enter"}

Edited(self, kind, c) ==
    CASE kind = "write" -> write_all_char_in_editor(self, c)
      [] kind = "backspace" -> backspace_all_in_editor(self)
      [] kind = "delete" -> delete_all_in_editor(self)
      [] kind = "tab" -> tab_in_editor(self)
      [] kind = "enter" -> enter_in_editor(self)

\* a call made under the engine: pre keeps every state a call was made on
Recorded(o) ==
    /\ ~panicked
    /\ op' = o
    /\ pre' = Append(pre, Self)
    /\ UNCHANGED <<active_area, command_input, editor_cursor_x, editor_cursor_y>>

\* an edit operation as the engine wraps it: one that changed the buffer
\* pushes its record and clears the redo stack. The first call, of any kind,
\* or a character typed after an undo that succeeded.
EditCommitted ==
    /\ pre = None \/ (Len(pre) = 2 /\ op.name = "undo" /\ result = Ok)
    /\ \E kind \in (IF pre = None THEN EditKinds ELSE {"write"}), c \in Chars :
           LET r == Edited(Self, kind, c)
           IN /\ Recorded(Called(kind, 0, 0, FALSE, IF kind = "write" THEN c ELSE ""))
              /\ Returns(r)
              /\ Hands(r, Unit)
              /\ IF ~r.panicked /\ r.editor_content # editor_content
                 THEN /\ undo_stack' = Append(undo_stack, UndoRecord(Self, r))
                      /\ redo_stack' = <<>>
                 ELSE UNCHANGED <<undo_stack, redo_stack>>

\* undo as the first call, or right after the first edit
Undo ==
    /\ pre = None \/ (Len(pre) = 1 /\ op.name \in EditKinds)
    /\ Recorded(Called("undo", 0, 0, FALSE, ""))
    /\ IF undo_stack = <<>>
       THEN /\ Returns(Self)
            /\ result' = Err
            /\ UNCHANGED <<undo_stack, redo_stack>>
       ELSE /\ Returns(undo(Self, Top(undo_stack)))
            /\ result' = Ok
            /\ undo_stack' = Pop(undo_stack)
            /\ redo_stack' = Append(redo_stack, Top(undo_stack))

\* redo as the first call, or right after an undo that succeeded
Redo ==
    /\ pre = None \/ (Len(pre) = 2 /\ op.name = "undo" /\ result = Ok)
    /\ Recorded(Called("redo", 0, 0, FALSE, ""))
    /\ IF redo_stack = <<>>
       THEN /\ Returns(Self)
            /\ result' = Err
            /\ UNCHANGED <<undo_stack, redo_stack>>
       ELSE /\ Returns(redo(Self, Top(redo_stack)))
            /\ result' = Ok
            /\ redo_stack' = Pop(redo_stack)
            /\ undo_stack' = Append(undo_stack, Top(redo_stack))

UndoNext == EditCommitted \/ Undo \/ Redo

SpecUndo == EditInit /\ [][UndoNext]_vars

\* ================================================================== claims
Cursor == CursorPosition(cursor_x, cursor_y)
Selected == is_text_selected(Self)
ExtendingMove(o) == o.name = "move" /\ o.shift
Forward(o) == o.x > 0 \/ o.y > 0

\* C1: in every reachable state the cursor is a position of the buffer:
\* 0 <= y < line_count and 0 <= x <= char_count(line y).
C1_CursorInRange ==
    /\ 0 <= cursor_y /\ cursor_y < Len(editor_content)
    /\ 0 <= cursor_x /\ cursor_x <= Len(editor_content[cursor_y + 1])

\* C2: the buffer never has zero lines.
C2_AtLeastOneLine == Len(editor_content) >= 1

\* backspace or delete removed the second of two lines
C2_Witness ==
    /\ op.name \in {"backspace", "delete"}
    /\ op.lines = 2
    /\ Len(editor_content) = 1

\* C3: no sequence of public operations performs an out-of-range line or
\* character access (no operation aborts the process).
C3_NoOutOfRangeAccess == ~panicked

\* C4: the two selection endpoints are both set or both unset.
C4_EndpointsTogether ==
    is_some(text_selection_start) <=> is_some(text_selection_end)

\* a leftward or upward extending motion made from the inactive state
C4_Witness ==
    /\ ExtendingMove(op) /\ ~Forward(op) /\ ~op.sel
    /\ is_some(text_selection_start) /\ is_some(text_selection_end)

\* C5: after a non-extending cursor motion the selection is inactive.
C5_PlainMotionClears ==
    (op.name = "move" /\ ~op.shift) =>
        (is_none(text_selection_start) /\ is_none(text_selection_end))

\* a plain motion at the buffer start, made while a selection was active
C5_Witness ==
    /\ op.name = "move" /\ ~op.shift /\ op.sel
    /\ cursor_x = 0 /\ cursor_y = 0
    /\ is_none(text_selection_start) /\ is_none(text_selection_end)

\* C6: an extending motion from the inactive state makes the selection
\* active; a rightward or downward step stores start = old cursor and
\* end = new cursor, a leftward or upward step start = new and end = old.
C6_ExtendFromInactive ==
    [][(ExtendingMove(op') /\ ~Selected) =>
          LET old == Cursor
              new == CursorPosition(cursor_x', cursor_y')
          IN IF Forward(op')
             THEN text_selection_start' = Some(old) /\ text_selection_end' = Some(new)
             ELSE text_selection_start' = Some(new) /\ text_selection_end' = Some(old)]_vars

\* an extending motion from the inactive state that could not move the cursor
\* left a zero-width active selection
C6_Witness ==
    /\ ExtendingMove(op) /\ ~op.sel
    /\ Selected
    /\ text_selection_start = text_selection_end
    /\ text_selection_end = Some(Cursor)

\* C7: an extending motion from the active state updates one endpoint only:
\* rightward or downward sets end to the new cursor and keeps start,
\* leftward or upward sets start to the new cursor and keeps end.
C7_ExtendFromActive ==
    [][(ExtendingMove(op') /\ Selected) =>
          LET new == CursorPosition(cursor_x', cursor_y')
          IN IF Forward(op')
             THEN text_selection_start' = text_selection_start
                  /\ text_selection_end' = Some(new)
             ELSE text_selection_start' = Some(new)
                  /\ text_selection_end' = text_selection_end]_vars

\* an extending motion made while the selection was active, the endpoints apart
C7_Witness ==
    /\ ExtendingMove(op) /\ op.sel
    /\ Selected
    /\ text_selection_start # text_selection_end

\* C8: a selection grown by extending motions is an anchor and a moving
\* endpoint: when one endpoint is the cursor, an extending motion keeps the
\* other endpoint (the anchor) and makes the new cursor the other one.
C8_AnchorKept ==
    [][(ExtendingMove(op) /\ ExtendingMove(op') /\ Selected
          /\ Some(Cursor) \in {text_selection_start, text_selection_end}) =>
          LET anchor == IF text_selection_start = Some(Cursor)
                        THEN text_selection_end ELSE text_selection_start
              new == Some(CursorPosition(cursor_x', cursor_y'))
          IN \/ text_selection_start' = anchor /\ text_selection_end' = new
             \/ text_selection_end' = anchor /\ text_selection_start' = new]_vars

Swapped(self) ==
    [self EXCEPT !.text_selection_start = self.text_selection_end,
                 !.text_selection_end = self.text_selection_start]
Consumers(self) ==
    << copy_selected_text(self),
       backspace_in_editor_text_is_selected(self),
       delete_in_editor_text_is_selected(self),
       write_char_in_editor_text_is_selected(self, "a") >>
Outcome(r) ==
    [editor_content |-> r.editor_content, copied_text |-> r.copied_text,
     cursor_x |-> r.cursor_x, cursor_y |-> r.cursor_y]

\* C9: with stored endpoints start after end, every selection consumer
\* (copy, backspace, delete, insert) does not fail and gives the result it
\* gives for the swapped pair.
C9_ConsumersNormalize ==
    (~panicked /\ Selected
       /\ After(unwrap(text_selection_start), unwrap(text_selection_end))) =>
        \A i \in 1..4 :
            /\ ~Consumers(Self)[i].panicked
            /\ Outcome(Consumers(Self)[i]) = Outcome(Consumers(Swapped(Self))[i])

\* C10: the cursor line stays inside the viewport band
\* [scroll_offset, scroll_offset + terminal_height - 2].
C10_CursorInBand ==
    /\ scroll_offset <= cursor_y
    /\ cursor_y <= scroll_offset + terminal_height - 2

\* ------------------------------------------------------------ scroll window
\* a one-line vertical motion: an up or down cursor motion or scroll request
VerticalStep(o) == o.name \in {"move", "scroll"} /\ o.x = 0 /\ o.y \in {1, -1}
\* the cursor is on the edge of the band that a step of y lines would cross
OnBandEdge(y) ==
    IF y = 1 THEN cursor_y = scroll_offset + terminal_height - 2
    ELSE cursor_y = scroll_offset
\* the offset moves by y, not below 0, and the cursor line stays
ScrollsBy(y) ==
    /\ scroll_offset' = (IF scroll_offset + y < 0 THEN 0 ELSE scroll_offset + y)
    /\ cursor_y' = cursor_y

StepDelta(o) ==
    IF o.name = "enter" THEN 1 ELSE IF VerticalStep(o) THEN o.y ELSE 0

Before == unwrap(pre)
BeforeLines == Before.editor_content
BeforeLine(y) == BeforeLines[y + 1]
BeforeCursor == CursorPosition(Before.cursor_x, Before.cursor_y)
SelStart == unwrap(Before.text_selection_start)
SelEnd == unwrap(Before.text_selection_end)
Did(name) == pre # None /\ op.name = name
\* the call was made with the cursor on a position of the buffer
ValidBefore ==
    /\ Before.cursor_y < Len(BeforeLines)
    /\ Before.cursor_x <= Len(BeforeLine(Before.cursor_y))
Min(a, b) == IF a < b THEN a ELSE b
\* lines y and y+1 of v joined into one
Joined(v, y) ==
    SubSeq(v, 1, y) \o << v[y + 1] \o v[y + 2] >> \o SubSeq(v, y + 3, Len(v))
\* line with the characters at offsets a..b-1 turned into spaces
Blanked(line, a, b) ==
    [j \in 1..Len(line) |-> IF a < j /\ j <= b THEN SPACE ELSE line[j]]

\* C12: one horizontal step from a valid cursor (y,x): right inside the line
\* gives (y,x+1), right at end-of-line gives (y+1,0) if a line follows and
\* changes nothing on the last line; left gives (y,x-1) if x > 0,
\* (y-1, char_count(y-1)) if x = 0 and y > 0, and changes nothing at (0,0).
\* The buffer is unchanged.
C12_HorizontalStep ==
    (Did("move") /\ op.y = 0 /\ ValidBefore) =>
        LET x == Before.cursor_x
            y == Before.cursor_y
        IN /\ editor_content = BeforeLines
           /\ Cursor =
                IF op.x = 1
                THEN IF x < Len(BeforeLine(y)) THEN CursorPosition(x + 1, y)
                     ELSE IF y + 1 < Len(BeforeLines) THEN CursorPosition(0, y + 1)
                     ELSE CursorPosition(x, y)
                ELSE IF x > 0 THEN CursorPosition(x - 1, y)
                     ELSE IF y > 0 THEN CursorPosition(Len(BeforeLine(y - 1)), y - 1)
                     ELSE CursorPosition(0, 0)

\* a step left from the start of a line landed after the last character of
\* the line above
C12_Witness ==
    /\ Did("move") /\ op.x = -1 /\ ValidBefore
    /\ Before.cursor_x = 0 /\ Before.cursor_y > 0
    /\ cursor_y = Before.cursor_y - 1
    /\ cursor_x = StepLen

\* C13: one vertical step: up from line 0 leaves cursor, buffer and scroll
\* offset unchanged and y is never negative; down from the last line appends
\* exactly one empty line; whenever the cursor line changes the new x is
\* min(old x, char_count(destination line)).
C13_VerticalStep ==
    (Did("move") /\ op.x = 0) =>
        /\ cursor_y >= 0
        /\ (op.y = -1 /\ Before.cursor_y = 0) =>
               /\ Cursor = BeforeCursor
               /\ editor_content = BeforeLines
               /\ scroll_offset = Before.scroll_offset
        /\ (op.y = 1 /\ Before.cursor_y = Len(BeforeLines) - 1) =>
               editor_content = BeforeLines \o << <<>> >>
        /\ (cursor_y # Before.cursor_y) =>
               cursor_x = Min(Before.cursor_x, Len(editor_content[cursor_y + 1]))

\* a step down from the last line, x > 0, reached the appended empty line
C13_Witness ==
    /\ Did("move") /\ op.y = 1
    /\ Before.cursor_y = Len(BeforeLines) - 1
    /\ Before.cursor_x > 0
    /\ Len(editor_content) = Len(BeforeLines) + 1
    /\ Cursor = CursorPosition(0, Before.cursor_y + 1)

C15_ReplaceInLine ==
    (Did("write") /\ op.sel /\ SelStart.y = SelEnd.y) =>
        LET line == BeforeLine(SelStart.y) IN
        /\ editor_content =
             [BeforeLines EXCEPT ![SelStart.y + 1] =
                  Take(line, SelStart.x) \o <<op.c>> \o Drop(line, SelEnd.x)]
        /\ Cursor = CursorPosition(SelStart.x + 1, SelStart.y)
        /\ ~Selected

\* a character typed over a non-empty span that starts inside its line
C15_Witness ==
    /\ Did("write") /\ op.sel /\ SelStart.y = SelEnd.y
    /\ 0 < SelStart.x /\ SelStart.x < SelEnd.x
    /\ ~Selected /\ ~panicked
    /\ Len(editor_content[SelStart.y + 1]) = Len(BeforeLine(SelStart.y))

\* C16: insert c over a multi-line selection (start.y < end.y): the interior
\* lines are dropped (removed, or left without characters), the last line
\* keeps its suffix from end.x, the first line becomes its prefix up to
\* start.x followed by c; the cursor ends at (start.y, start.x + 1) and the
\* selection is inactive.
C16_ReplaceAcrossLines ==
    (Did("write") /\ op.sel /\ SelStart.y < SelEnd.y) =>
        LET first == Take(BeforeLine(SelStart.y), SelStart.x) \o <<op.c>>
            last == Drop(BeforeLine(SelEnd.y), SelEnd.x)
            above == SubSeq(BeforeLines, 1, SelStart.y)
            below == SubSeq(BeforeLines, SelEnd.y + 2, Len(BeforeLines))
            emptied == [i \in 1..(SelEnd.y - SelStart.y - 1) |-> <<>>]
        IN /\ \/ editor_content = above \o <<first, last>> \o below
              \/ editor_content = above \o <<first>> \o emptied \o <<last>> \o below
           /\ Cursor = CursorPosition(SelStart.x + 1, SelStart.y)
           /\ ~Selected

\* C17: backspace without selection at a valid cursor (y,x): x > 0 removes the
\* character at x-1, cursor (y,x-1); x = 0 and y > 0 appends line y to line
\* y-1 and removes it, cursor (y-1, old char_count(y-1)); at (0,0) buffer and
\* cursor are unchanged.
C17_BackspaceAtCursor ==
    (Did("backspace") /\ ~op.sel /\ ValidBefore) =>
        LET x == Before.cursor_x
            y == Before.cursor_y
            line == BeforeLine(y)
        IN IF x > 0
           THEN /\ editor_content =
                     [BeforeLines EXCEPT ![y + 1] = Take(line, x - 1) \o Drop(line, x)]
                /\ Cursor = CursorPosition(x - 1, y)
           ELSE IF y > 0
           THEN /\ editor_content = Joined(BeforeLines, y - 1)
                /\ Cursor = CursorPosition(Len(BeforeLine(y - 1)), y - 1)
           ELSE /\ editor_content = BeforeLines
                /\ Cursor = BeforeCursor

\* backspace at the start of a non-empty line joined it to the non-empty
\* line above
C17_Witness ==
    /\ Did("backspace") /\ ~op.sel /\ ValidBefore
    /\ Before.cursor_x = 0 /\ Before.cursor_y > 0
    /\ Len(BeforeLine(Before.cursor_y)) > 0
    /\ Len(editor_content) = Len(BeforeLines) - 1
    /\ cursor_x > 0

\* C18: backspace with a selection (start <= end) keeps the number of lines:
\* a single-line selection leaves prefix[0,start.x) + suffix[end.x..]; of a
\* multi-line selection the first line keeps exactly its prefix up to start.x
\* and the last line exactly its suffix from end.x; lines outside
\* [start.y, end.y] are unchanged; the cursor lands at start and the
\* selection is inactive.
C18_BackspaceSelection ==
    (Did("backspace") /\ op.sel) =>
        /\ Len(editor_content) = Len(BeforeLines)
        /\ IF SelStart.y = SelEnd.y
           THEN editor_content[SelStart.y + 1] =
                    Take(BeforeLine(SelStart.y), SelStart.x)
                        \o Drop(BeforeLine(SelStart.y), SelEnd.x)
           ELSE /\ editor_content[SelStart.y + 1] =
                       Take(BeforeLine(SelStart.y), SelStart.x)
                /\ editor_content[SelEnd.y + 1] = Drop(BeforeLine(SelEnd.y), SelEnd.x)
        /\ \A i \in 1..Len(BeforeLines) :
               (i - 1 < SelStart.y \/ i - 1 > SelEnd.y) =>
                   editor_content[i] = BeforeLines[i]
        /\ Cursor = SelStart
        /\ ~Selected

\* C19 as stated: delete without selection at a valid cursor (y,x) removes
\* the character at offset x if x < char_count(y); at x = char_count(y) it
\* appends line y+1 to line y and removes it if there is one (also when line
\* y is empty), and changes nothing on the last line.
C19_DeleteAtCursor ==
    (Did("delete") /\ ~op.sel /\ ValidBefore) =>
        LET x == Before.cursor_x
            y == Before.cursor_y
            line == BeforeLine(y)
        IN IF x < Len(line)
           THEN editor_content =
                    [BeforeLines EXCEPT ![y + 1] = Take(line, x) \o Drop(line, x + 1)]
           ELSE IF y + 1 < Len(BeforeLines)
           THEN editor_content = Joined(BeforeLines, y)
           ELSE editor_content = BeforeLines

\* C19: delete without selection at a valid cursor (y,x) never moves the
\* cursor; if x + 1 < char_count(y) it removes the character at offset x+1;
\* otherwise, if line y is not empty and a line y+1 exists, it appends line
\* y+1 to line y and removes it; in every other case nothing changes.
C19_DeleteAfterCursor ==
    (Did("delete") /\ ~op.sel /\ ValidBefore) =>
        LET x == Before.cursor_x
            y == Before.cursor_y
            line == BeforeLine(y)
        IN /\ Cursor = BeforeCursor
           /\ IF x + 1 < Len(line)
              THEN editor_content =
                       [BeforeLines EXCEPT ![y + 1] =
                            Take(line, x + 1) \o Drop(line, x + 2)]
              ELSE IF Len(line) > 0 /\ y + 1 < Len(BeforeLines)
              THEN editor_content = Joined(BeforeLines, y)
              ELSE editor_content = BeforeLines

\* delete at the start of a two-character line kept the first character and
\* removed the second
C19_Witness ==
    /\ Did("delete") /\ ~op.sel /\ ValidBefore
    /\ Before.cursor_x = 0
    /\ Len(BeforeLine(Before.cursor_y)) = 2
    /\ editor_content[cursor_y + 1] = << BeforeLine(Before.cursor_y)[1] >>

\* offset x of line y lies in the selected span [start, end)
InSpan(y, x) ==
    /\ ~After(SelStart, CursorPosition(x, y))
    /\ After(SelEnd, CursorPosition(x, y))

CutInRange == \A y \in SelStart.y..(SelEnd.y - 1) : SelStart.x <= Len(BeforeLine(y))

Opened(content, x) ==
    [editor_content |-> content, cursor_x |-> x, cursor_y |-> 0,
     visual_cursor_x |-> 0, scroll_offset |-> 0,
     terminal_height |-> TerminalHeight,
     text_selection_start |-> None, text_selection_end |-> None,
     copied_text |-> <<>>, panicked |-> FALSE]

NextTabStop(v) == ((v \div TAB_WIDTH) + 1) * TAB_WIDTH

\* C21: tab at a valid cursor (y,x) inserts one tab character at offset x of
\* line y, leaves the line count and the cursor line unchanged, advances x by
\* exactly one, and the visual column after the tab is the next multiple of
\* the tab width above the visual column before it; a tab at x=2 of "1234"
\* gives visual column 4, and 6 at the end of that line.
C21_TabAtCursor ==
    (Did("tab") /\ ValidBefore) =>
        LET x == Before.cursor_x
            y == Before.cursor_y
            line == BeforeLine(y)
            tabbed == tab_in_editor(Opened(<< <<"1", "2", "3", "4">> >>, 2))
        IN /\ ~panicked
           /\ editor_content =
                  [BeforeLines EXCEPT ![y + 1] = Take(line, x) \o <<TAB>> \o Drop(line, x)]
           /\ Cursor = CursorPosition(x + 1, y)
           /\ visual_cursor_x = NextTabStop(Before.visual_cursor_x)
           /\ tabbed.editor_content = << <<"1", "2", TAB, "3", "4">> >>
           /\ tabbed.visual_cursor_x = 4
           /\ move_cursor_in_editor(tabbed, 10, 0).visual_cursor_x = 6

\* a tab typed behind a tab and a letter, at visual column 5, ends at column 8
C21_Witness ==
    /\ Did("tab") /\ ValidBefore
    /\ Before.visual_cursor_x = TAB_WIDTH + 1
    /\ Before.cursor_x = 2
    /\ editor_content[cursor_y + 1][3] = TAB
    /\ visual_cursor_x = 2 * TAB_WIDTH

\* C22: after every edit operation and every cursor motion the stored visual
\* column equals the value recomputed from the current state: the scan of line
\* y from offset 0 up to x, one column per non-tab character and up to the
\* next multiple of the tab width per tab, also after a backspace that merged
\* two lines and after a newline.
C22_VisualColumnCurrent ==
    (op.name \notin {"new", "copy", "paste"} /\ ~panicked
     /\ cursor_y < Len(editor_content)) =>
        visual_cursor_x = calculate_visual_x(Self)

\* the call was made with the cursor line inside the viewport band
InBandBefore ==
    /\ Before.scroll_offset <= Before.cursor_y
    /\ Before.cursor_y <= Before.scroll_offset + Before.terminal_height - 2

\* C23: newline at a valid cursor (y,x), wherever the cursor is inside the
\* viewport band: with x at the end of line y an empty line is inserted
\* directly after line y; otherwise line y keeps its prefix [0,x) and the
\* suffix from x becomes a new line directly below it, at index y+1; in both
\* cases the cursor ends at (y+1,0).
C23_NewlineAtCursor ==
    (Did("enter") /\ ValidBefore /\ InBandBefore) =>
        LET x == Before.cursor_x
            y == Before.cursor_y
            line == BeforeLine(y)
            below == SubSeq(BeforeLines, y + 2, Len(BeforeLines))
        IN /\ ~panicked
           /\ Cursor = CursorPosition(0, y + 1)
           /\ IF x = Len(line)
              THEN editor_content = InsertAt(BeforeLines, y + 1, <<>>)
              ELSE /\ Len(editor_content) >= Len(BeforeLines) + 1
                   /\ SubSeq(editor_content, 1, Len(BeforeLines) + 1) =
                          SubSeq(BeforeLines, 1, y)
                          \o << Take(line, x), Drop(line, x) >> \o below

\* ---------------------------------------------------------------- clipboard
\* the characters at offsets a..b-1 of line
Span(line, a, b) == SubSeq(line, a + 1, b)

\* C24: copy with an active selection (start <= end) replaces the clipboard
\* payload wholesale with the selected span, as lines in order: of a
\* single-line selection one line with the characters [start.x, end.x); of a
\* multi-line selection the first line from start.x to its end, every interior
\* line whole, and the last line from offset 0 up to end.x; the payload has
\* end.y - start.y + 1 lines.
C24_CopySelection ==
    (Did("copy") /\ op.sel) =>
        LET n == SelEnd.y - SelStart.y + 1
        IN /\ ~panicked
           /\ Len(copied_text) = n
           /\ \A i \in 1..n :
                  LET line == BeforeLine(SelStart.y + i - 1)
                      from == IF i = 1 THEN SelStart.x ELSE 0
                      upto == IF i = n THEN SelEnd.x ELSE Len(line)
                  IN copied_text[i] = Span(line, from, upto)

\* a three-line selection replaced a payload that was already there: the
\* first line gave its tail, the interior line all of itself, the last line
\* its head
C24_Witness ==
    /\ Did("copy") /\ op.sel
    /\ Before.copied_text # <<>>
    /\ SelEnd.y = SelStart.y + 2
    /\ SelStart.x > 0 /\ SelEnd.x > 0
    /\ Len(copied_text) = 3
    /\ copied_text[1] # <<>> /\ copied_text[2] # <<>> /\ copied_text[3] # <<>>
    /\ copied_text[1] # BeforeLine(SelStart.y)
    /\ copied_text[3] # BeforeLine(SelEnd.y)
    /\ \A i \in 1..3 : copied_text[i] \notin { Before.copied_text[j] : j \in 1..Len(Before.copied_text) }

\* C25 as stated: copy invoked while no selection is active fails with a
\* text-selection error returned to the caller; it is not a silent successful
\* no-op.
C25_CopyWithoutSelectionFails ==
    (Did("copy") /\ ~op.sel) => result = Err


\* C25: copy invoked while no selection is active returns Ok(()) and changes
\* nothing: a silent successful no-op.
C25_CopyWithoutSelectionSucceeds ==
    (Did("copy") /\ ~op.sel) =>
        /\ result = Ok
        /\ ~panicked
        /\ Self = Before

\* a copy without selection succeeded with a payload on the clipboard
C25_Witness ==
    /\ Did("copy") /\ ~op.sel
    /\ result = Ok
    /\ copied_text # <<>>
    /\ editor_content # << <<>> >>

\* C26: copy never changes the buffer content, the cursor, the selection
\* endpoints or the scroll offset; when no selection is active it also leaves
\* the clipboard payload unchanged.
C26_CopyFrame ==
    Did("copy") =>
        /\ editor_content = BeforeLines
        /\ Cursor = BeforeCursor
        /\ text_selection_start = Before.text_selection_start
        /\ text_selection_end = Before.text_selection_end
        /\ scroll_offset = Before.scroll_offset
        /\ (~op.sel => copied_text = Before.copied_text)

\* a copy replaced the payload with part of a line and left the rest alone
C26_Witness ==
    /\ Did("copy") /\ op.sel
    /\ copied_text # Before.copied_text
    /\ copied_text[1] # <<>>
    /\ text_selection_start # None
    /\ editor_content = BeforeLines

\* the lines that line B + A becomes when payload P is pasted between B and A
Pasted(B, P, A) ==
    IF Len(P) = 1 THEN << B \o P[1] \o A >>
    ELSE << B \o P[1] >> \o SubSeq(P, 2, Len(P) - 1) \o << P[Len(P)] \o A >>

\* C27: paste of a non-empty payload P of n lines at a valid cursor (y,x),
\* line y being B + A split at offset x: for n = 1 line y becomes
\* B + P[0] + A; for n >= 2 line y is replaced by the n lines B + P[0], P[1],
\* ..., P[n-2], P[n-1] + A in this order.
C27_PasteAtCursor ==
    (Did("paste") /\ ValidBefore /\ Before.copied_text # <<>>) =>
        LET x == Before.cursor_x
            y == Before.cursor_y
            P == Before.copied_text
            n == Len(P)
        IN /\ ~panicked
           /\ Len(editor_content) >= y + n
           /\ SubSeq(editor_content, y + 1, y + n) =
                  Pasted(Take(BeforeLine(y), x), P, Drop(BeforeLine(y), x))

\* three lines pasted into the middle of a line of the buffer's middle
C27_Witness ==
    /\ Did("paste") /\ ValidBefore
    /\ Len(Before.copied_text) = 3
    /\ Before.cursor_x = 1
    /\ Before.cursor_y = 1
    /\ Len(BeforeLine(1)) = 2
    /\ Len(editor_content[2]) = 2 /\ Len(editor_content[3]) = 1
    /\ Len(editor_content[4]) = 2
    /\ editor_content[2][1] = BeforeLine(1)[1]
    /\ editor_content[4][2] = BeforeLine(1)[2]

\* C28: paste of an n-line payload (n >= 1) into a buffer with at least one
\* line changes the line count by exactly n - 1 and leaves every line other
\* than the cursor line unchanged: lines above keep index and content, lines
\* below keep content and order, shifted down by n - 1, and no extra empty
\* line is appended, for every payload length and cursor line.
C28_PasteFrame ==
    (Did("paste") /\ ValidBefore /\ Before.copied_text # <<>>) =>
        LET y == Before.cursor_y
            n == Len(Before.copied_text)
        IN /\ ~panicked
           /\ Len(editor_content) = Len(BeforeLines) + n - 1
           /\ SubSeq(editor_content, 1, y) = SubSeq(BeforeLines, 1, y)
           /\ SubSeq(editor_content, y + n + 1, Len(editor_content)) =
                  SubSeq(BeforeLines, y + 2, Len(BeforeLines))

\* C29: paste with an empty clipboard payload is a defined no-op: it succeeds
\* without error and leaves buffer, cursor, selection, scroll offset and
\* payload unchanged.
C29_PasteNothing ==
    (Did("paste") /\ Before.copied_text = <<>>) =>
        /\ result = Ok
        /\ ~panicked
        /\ editor_content = BeforeLines
        /\ Cursor = BeforeCursor
        /\ text_selection_start = Before.text_selection_start
        /\ text_selection_end = Before.text_selection_end
        /\ scroll_offset = Before.scroll_offset
        /\ copied_text = <<>>

\* a paste of nothing into a buffer with text and a selection succeeded
C29_Witness ==
    /\ Did("paste") /\ Before.copied_text = <<>>
    /\ result = Ok
    /\ op.sel
    /\ Len(editor_content) > 1
    /\ cursor_x > 0

C31_InsertThenBackspace ==
    (Did("backspace") /\ ~op.sel /\ ValidBefore) =>
        /\ ~panicked
        /\ editor_content = BeforeLines
        /\ Cursor = BeforeCursor

\* typed and taken back in the middle of a line, on a line below the first
C31_Witness ==
    /\ Did("backspace") /\ ~op.sel /\ ValidBefore
    /\ Before.cursor_y > 0
    /\ Before.cursor_x = 1
    /\ Len(BeforeLine(Before.cursor_y)) = 2
    /\ editor_content = BeforeLines
    /\ cursor_x = 1

\* C32: copy/paste round trip, for single-line and multi-line selections:
\* copying an active selection, removing it with backspace-with-selection
\* (the cursor lands at start), and pasting the payload at that cursor yields
\* a buffer equal, line for line, to the buffer before the removal.
C32_CopyPasteRoundTrip ==
    Did("paste") =>
        /\ ~panicked
        /\ editor_content = BeforeLines

\* C33: cut, a copy of the active selection followed by
\* backspace-with-selection, removes exactly the selected range: the cursor is
\* left at start and the buffer's total character count decreases by exactly
\* the total character count of the copied payload, for selections spanning
\* one, two, and three or more lines.
C33_CutRemovesPayload ==
    (Did("backspace") /\ op.sel /\ ~panicked) =>
        /\ Cursor = SelStart
        /\ TotalChars(editor_content) =
               TotalChars(BeforeLines) - TotalChars(copied_text)

\* --------------------------------------------------------------- undo, redo
\* the state the last call was made on
Last == pre[Len(pre)]

C35_ToggleActiveArea ==
    [][ op'.name = "toggle" =>
           /\ active_area' = (IF active_area = Editor THEN CommandLine ELSE Editor)
           /\ editor_content' = editor_content
           /\ active_area = Editor =>
                  /\ Cursor' = CursorPosition(0, 0)
                  /\ CursorPosition(editor_cursor_x', editor_cursor_y') = Cursor
           /\ active_area = CommandLine =>
                  Cursor' = BeforeCursor ]_vars

\* back in the editor on a line below the first, past the start of the line,
\* after a character was typed into the command line
C35_Witness ==
    /\ op.name = "toggle"
    /\ active_area = Editor
    /\ command_input # <<>>
    /\ pre # None
    /\ Cursor = BeforeCursor
    /\ cursor_x > 0 /\ cursor_y > 0

InBuffer(p) == p.y < line_count(Self) /\ p.x <= Len(editor_content[p.y + 1])

\* C37: in every reachable state in which a selection is active, both
\* endpoints denote valid positions of the current buffer (endpoint.y <
\* line_count and endpoint.x <= char_count(endpoint.y)), also after tab,
\* newline, or paste performed while the selection is active.
C37_EndpointsInBuffer ==
    (~panicked /\ Selected) =>
        /\ InBuffer(unwrap(text_selection_start))
        /\ InBuffer(unwrap(text_selection_end))

\* ------------------------------------------------------------------ newline
\* the characters of the buffer, the lines one after another
RECURSIVE Concatenated(_)
Concatenated(v) == IF v = <<>> THEN <<>> ELSE Head(v) \o Concatenated(Tail(v))

\* C38: newline at any valid cursor position, including on the last line of
\* the buffer, increases the line count by exactly one and preserves the
\* text: concatenating all lines in order gives the same character sequence
\* before and after, and lines other than the split line are unchanged.
C38_NewlineKeepsText ==
    (Did("enter") /\ ValidBefore) =>
        LET y == Before.cursor_y
            n == Len(BeforeLines)
        IN /\ ~panicked
           /\ Len(editor_content) = n + 1
           /\ Concatenated(editor_content) = Concatenated(BeforeLines)
           /\ SubSeq(editor_content, 1, y) = SubSeq(BeforeLines, 1, y)
           /\ SubSeq(editor_content, y + 3, n + 1) = SubSeq(BeforeLines, y + 2, n)

\* --------------------------------------------- sequences of vertical motions
\* scroll_offset >= 0 and scroll_offset <= cursor line <= scroll_offset + h - 2
InBand ==
    /\ scroll_offset >= 0
    /\ scroll_offset <= cursor_y
    /\ cursor_y <= scroll_offset + terminal_height - 2

\* C39 as stated: for a fixed viewport height h >= 3, starting from cursor
\* line 0 and scroll offset 0, any sequence of one-line vertical motions only
\* keeps scroll_offset >= 0 and scroll_offset <= cursor line <= scroll_offset
\* + h - 2 in every state, and each such step changes either the cursor line
\* or the scroll offset but never both.
C39_VerticalStepChangesOne ==
    [][ /\ InBand /\ InBand'
        /\ (cursor_y' # cursor_y) # (scroll_offset' # scroll_offset) ]_vars

\* C39: for a fixed viewport height h >= 3, starting from cursor line 0 and
\* scroll offset 0, any sequence of one-line vertical motions only keeps
\* scroll_offset >= 0 and scroll_offset <= cursor line <= scroll_offset + h - 2
\* in every state, and no step changes both the cursor line and the scroll
\* offset: a step up made on cursor line 0 changes neither, every other step
\* changes exactly one of them.
C39_VerticalStepChangesAtMostOne ==
    [][ /\ InBand /\ InBand'
        /\ IF op'.y = -1 /\ cursor_y = 0
           THEN cursor_y' = cursor_y /\ scroll_offset' = scroll_offset
           ELSE (cursor_y' # cursor_y) # (scroll_offset' # scroll_offset) ]_vars

\* a scroll request made on the band bottom moved the offset a second time
\* and left the cursor, which earlier motions had moved, one line above the
\* new band bottom
C39_Witness ==
    /\ op.name = "scroll" /\ op.y = 1
    /\ op.cy = cursor_y
    /\ scroll_offset >= 2
    /\ cursor_y = scroll_offset + terminal_height - 3

\* ------------------------------------------------------------ save and load
\* C40: save/load round trip: for every reachable buffer (including buffers
\* whose last lines are empty and the single-empty-line document), saving it
\* as its lines joined by a single newline and loading that content back by
\* splitting on line boundaries yields the same sequence of lines, with at
\* least one line.
C40_SaveLoadRoundTrip ==
    Did("save_run") =>
        /\ editor_content = BeforeLines
        /\ Len(editor_content) >= 1
====
